---------------------------- MODULE Spec2Model ----------------------------
(***************************************************************************)
(* Model of src/api.py of the Resume Shortlisting API.                     *)
(*                                                                         *)
(*   - parse_crew_result, the extractor that turns the free-form report of *)
(*     the crew into a ShortlistResponse (strict table scan, alternative   *)
(*     scan, placeholder, whole-function fallback);                        *)
(*   - shortlist_resumes, the upload handler, with the shared temporary    *)
(*     directory and the cleanup_files background task.                    *)
(*                                                                         *)
(* A Python str is a sequence of one-character strings; a float score is   *)
(* the exact decimal fraction [num, den].                                  *)
(***************************************************************************)
EXTENDS Integers, Sequences, FiniteSets, TLC

(***************************************************************************)
(* Python str operations, computed character by character.                 *)
(***************************************************************************)

\* The characters str.strip() and the regex class \s remove.
Whitespace == {" ", "\n", "\t", "\r"}

\* The characters of the regex class \d.
Digits == <<"0", "1", "2", "3", "4", "5", "6", "7", "8", "9">>

IsDigit(c) == \E i \in 1..10 : Digits[i] = c

\* int(c) of one decimal digit.
DigitVal(c) == (CHOOSE i \in 1..10 : Digits[i] = c) - 1

UpperCase == <<"A", "B", "C", "D", "E", "F", "G", "H", "I", "J", "K", "L", "M",
               "N", "O", "P", "Q", "R", "S", "T", "U", "V", "W", "X", "Y", "Z">>

LowerCase == <<"a", "b", "c", "d", "e", "f", "g", "h", "i", "j", "k", "l", "m",
               "n", "o", "p", "q", "r", "s", "t", "u", "v", "w", "x", "y", "z">>

LowerChar(c) ==
    IF \E i \in 1..26 : UpperCase[i] = c
    THEN LowerCase[CHOOSE i \in 1..26 : UpperCase[i] = c]
    ELSE c

\* s.lower()
Lower(s) == [i \in 1..Len(s) |-> LowerChar(s[i])]

\* s[i-1:] starts with sub (i is 1-based)
MatchAt(s, sub, i) ==
    /\ i + Len(sub) - 1 <= Len(s)
    /\ \A k \in 1..Len(sub) : s[i + k - 1] = sub[k]

\* sub in s
Contains(s, sub) == \E i \in 1..(Len(s) - Len(sub) + 1) : MatchAt(s, sub, i)

\* s.startswith(sub)
StartsWith(s, sub) == MatchAt(s, sub, 1)

\* s.endswith(sub)
EndsWith(s, sub) == Len(sub) <= Len(s) /\ MatchAt(s, sub, Len(s) - Len(sub) + 1)

\* s.strip()
Strip(s) ==
    LET keep == {i \in 1..Len(s) : s[i] \notin Whitespace}
    IN  IF keep = {} THEN <<>>
        ELSE LET lo == CHOOSE i \in keep : \A j \in keep : i <= j
                 hi == CHOOSE i \in keep : \A j \in keep : j <= i
             IN  SubSeq(s, lo, hi)

\* The index of the first occurrence of the character c in s at or after
\* index i, 0 if there is none.
FindChar(s, c, i) ==
    IF \E k \in i..Len(s) : s[k] = c
    THEN CHOOSE k \in i..Len(s) : s[k] = c /\ \A m \in i..(k - 1) : s[m] # c
    ELSE 0

RECURSIVE SplitFrom(_, _, _, _)
\* The pieces of s[start-1:] between occurrences of the character c, k the
\* index of the next occurrence (0 if none): one step per piece.
SplitFrom(s, c, start, k) ==
    IF k = 0 THEN <<SubSeq(s, start, Len(s))>>
    ELSE <<SubSeq(s, start, k - 1)>> \o SplitFrom(s, c, k + 1, FindChar(s, c, k + 1))

\* s.split(c), c one character: always at least one piece.
Split(s, c) == SplitFrom(s, c, 1, FindChar(s, c, 1))

\* The index of the leftmost occurrence of sub in s at or after index i, 0 if
\* there is none.
Find(s, sub, i) ==
    IF \E k \in i..Len(s) : MatchAt(s, sub, k)
    THEN CHOOSE k \in i..Len(s) :
            MatchAt(s, sub, k) /\ \A m \in i..(k - 1) : ~MatchAt(s, sub, m)
    ELSE 0

RECURSIVE ReplaceFrom(_, _, _, _, _)
\* s[i-1:] with the occurrences of old replaced, k the index of the leftmost
\* occurrence at or after i (0 if none): one step per occurrence.
ReplaceFrom(s, old, new, i, k) ==
    IF k = 0 THEN SubSeq(s, i, Len(s))
    ELSE SubSeq(s, i, k - 1) \o new
            \o ReplaceFrom(s, old, new, k + Len(old), Find(s, old, k + Len(old)))

\* s.replace(old, new), old non-empty: leftmost occurrences, not overlapping.
Replace(s, old, new) == ReplaceFrom(s, old, new, 1, Find(s, old, 1))

RECURSIVE Join(_, _)
\* sep.join(parts)
Join(parts, sep) ==
    IF parts = <<>> THEN <<>>
    ELSE IF Len(parts) = 1 THEN parts[1]
         ELSE parts[1] \o sep \o Join(Tail(parts), sep)

RECURSIVE IntToStr(_)
\* str(n) of a natural number, as an f-string formats it.
IntToStr(n) ==
    IF n < 10 THEN <<Digits[n + 1]>>
    ELSE IntToStr(n \div 10) \o <<Digits[(n % 10) + 1]>>

\* parts[1:-1]
Inner(parts) == IF Len(parts) <= 2 THEN <<>> ELSE SubSeq(parts, 2, Len(parts) - 1)

(***************************************************************************)
(* Scores: float values as exact decimal fractions num/den, den a power    *)
(* of ten.                                                                 *)
(***************************************************************************)

RECURSIVE DigitsToInt(_)
\* int(ds) of a non-empty run of decimal digits.
DigitsToInt(ds) ==
    IF ds = <<>> THEN 0
    ELSE 10 * DigitsToInt(SubSeq(ds, 1, Len(ds) - 1)) + DigitVal(ds[Len(ds)])

RECURSIVE Pow10(_)
Pow10(k) == IF k = 0 THEN 1 ELSE 10 * Pow10(k - 1)

\* The end of the run of digits that starts at s[i].
DigitRunEnd(s, i) ==
    CHOOSE j \in i..Len(s) :
        /\ \A k \in i..j : IsDigit(s[k])
        /\ (j = Len(s) \/ ~IsDigit(s[j + 1]))

\* re.search(r'(\d+(?:\.\d+)?)', s): the leftmost run of digits, with a
\* fraction when a '.' and a digit follow it. found = FALSE for no match.
ScoreMatch(s) ==
    LET ds == {i \in 1..Len(s) : IsDigit(s[i])}
    IN  IF ds = {} THEN [found |-> FALSE, int |-> <<>>, frac |-> <<>>]
        ELSE LET i == CHOOSE x \in ds : \A y \in ds : x <= y
                 j == DigitRunEnd(s, i)
                 hasFrac == /\ j + 2 <= Len(s)
                            /\ s[j + 1] = "."
                            /\ IsDigit(s[j + 2])
             IN  [found |-> TRUE,
                  int   |-> SubSeq(s, i, j),
                  frac  |-> IF hasFrac
                            THEN SubSeq(s, j + 2, DigitRunEnd(s, j + 2))
                            ELSE <<>>]

\* float(score_match.group(1))
ToFloat(m) == [num |-> DigitsToInt(m.int \o m.frac), den |-> Pow10(Len(m.frac))]

\* The float n.0
Float(n) == [num |-> n, den |-> 1]

\* a < b, a <= b, a = b on floats
FloatLt(a, b) == a.num * b.den < b.num * a.den

FloatLe(a, b) == a.num * b.den <= b.num * a.den

FloatEq(a, b) == a.num * b.den = b.num * a.den

\* score / 10.0
DivTen(a) == [num |-> a.num, den |-> a.den * 10]

\* min(a, b) and max(a, b) as Python computes them: the first argument wins ties.
PyMin(a, b) == IF FloatLt(b, a) THEN b ELSE a

PyMax(a, b) == IF FloatLt(a, b) THEN b ELSE a

\* ClampScore without the clamp: the score as parsed.
Unclamped(score) == score

\* max(1.0, min(10.0, score))
ClampScore(score) == PyMax(Float(1), PyMin(Float(10), score))

\* Lines 322-331: the strict tier's score of a score cell.
StrictScore(score_str) ==
    LET score_match == ScoreMatch(score_str)
    IN  IF score_match.found
        THEN LET score == ToFloat(score_match)
             IN  ClampScore(IF FloatLt(Float(10), score) THEN DivTen(score) ELSE score)
        ELSE Float(5)

\* Lines 402-404: the alternative tier's score of a score cell.
LooseScore(score_str) ==
    LET score_match == ScoreMatch(score_str)
    IN  ClampScore(IF score_match.found THEN ToFloat(score_match) ELSE Float(5))

(***************************************************************************)
(* The pydantic models.                                                    *)
(***************************************************************************)

\* Field(..., ge=1, le=10) of CandidateEvaluation.score
ScoreValid(score) == FloatLe(Float(1), score) /\ FloatLe(score, Float(10))

\* CandidateEvaluation(...): ok = FALSE stands for the ValidationError (a
\* ValueError) that pydantic raises when a field does not validate.
CandidateEvaluation(name, mobile, score, questions, reasoning) ==
    [ok        |-> ScoreValid(score),
     name      |-> name,
     mobile    |-> mobile,
     score     |-> score,
     questions |-> questions,
     reasoning |-> reasoning]

\* ShortlistResponse with the number of parsed candidates as total_candidates.
ShortlistResponseCounted(job_analysis, candidates, total_candidates) ==
    [job_analysis     |-> job_analysis,
     candidates       |-> candidates,
     total_candidates |-> Len(candidates)]

\* ShortlistResponse(job_analysis=..., candidates=..., total_candidates=...)
ShortlistResponse(job_analysis, candidates, total_candidates) ==
    [job_analysis     |-> job_analysis,
     candidates       |-> candidates,
     total_candidates |-> total_candidates]

(***************************************************************************)
(* The string literals of parse_crew_result.                               *)
(***************************************************************************)

\* The str: | Name |
HeaderName ==
    <<"|", " ", "N", "a", "m", "e", " ", "|">>

\* The str: | Mobile |
HeaderMobile ==
    <<"|", " ", "M", "o", "b", "i", "l", "e", " ", "|">>

\* The str: | Score |
HeaderScore ==
    <<"|", " ", "S", "c", "o", "r", "e", " ", "|">>

\* The str: <br>
Br1 ==
    <<"<", "b", "r", ">">>

\* The str: <br/>
Br2 ==
    <<"<", "b", "r", "/", ">">>

\* The str: <br />
Br3 ==
    <<"<", "b", "r", " ", "/", ">">>

\* The marker of a fenced code block: three backquotes. The backquote
\* character is written "BQ" (a string of the module cannot hold it).
Fence ==
    <<"BQ", "BQ", "BQ">>

\* The str: not found
NotFound ==
    <<"n", "o", "t", " ", "f", "o", "u", "n", "d">>

\* The str: n/a
NA ==
    <<"n", "/", "a">>

\* The str: Candidate 
CandidatePrefix ==
    <<"C", "a", "n", "d", "i", "d", "a", "t", "e", " ">>

\* The str: Not available
NotAvailable ==
    <<"N", "o", "t", " ", "a", "v", "a", "i", "l", "a", "b", "l", "e">>

\* The str: Tell me about your experience relevant to this role?
DefaultQuestion ==
    <<"T", "e", "l", "l", " ", "m", "e", " ", "a", "b", "o", "u", "t", " ",
      "y", "o", "u", "r", " ", "e", "x", "p", "e", "r", "i", "e", "n", "c",
      "e", " ", "r", "e", "l", "e", "v", "a", "n", "t", " ", "t", "o", " ",
      "t", "h", "i", "s", " ", "r", "o", "l", "e", "?">>

\* The str: What interests you about this position?
SecondQuestion ==
    <<"W", "h", "a", "t", " ", "i", "n", "t", "e", "r", "e", "s", "t", "s",
      " ", "y", "o", "u", " ", "a", "b", "o", "u", "t", " ", "t", "h", "i",
      "s", " ", "p", "o", "s", "i", "t", "i", "o", "n", "?">>

\* The str: Job requirements analysis completed.
JobAnalysisDefault ==
    <<"J", "o", "b", " ", "r", "e", "q", "u", "i", "r", "e", "m", "e", "n",
      "t", "s", " ", "a", "n", "a", "l", "y", "s", "i", "s", " ", "c", "o",
      "m", "p", "l", "e", "t", "e", "d", ".">>

\* The str: Name
WordName ==
    <<"N", "a", "m", "e">>

\* The str: Mobile
WordMobile ==
    <<"M", "o", "b", "i", "l", "e">>

\* The str: ---
Dashes ==
    <<"-", "-", "-">>

\* The str: ===
Equals ==
    <<"=", "=", "=">>

\* The str: Analysis completed
AnalysisCompleted ==
    <<"A", "n", "a", "l", "y", "s", "i", "s", " ", "c", "o", "m", "p", "l",
      "e", "t", "e", "d">>

\* The str: Contact information not extracted
ContactNotExtracted ==
    <<"C", "o", "n", "t", "a", "c", "t", " ", "i", "n", "f", "o", "r", "m",
      "a", "t", "i", "o", "n", " ", "n", "o", "t", " ", "e", "x", "t", "r",
      "a", "c", "t", "e", "d">>

\* The str: Resume processed but detailed extraction needs manual review
NeedsManualReview ==
    <<"R", "e", "s", "u", "m", "e", " ", "p", "r", "o", "c", "e", "s", "s",
      "e", "d", " ", "b", "u", "t", " ", "d", "e", "t", "a", "i", "l", "e",
      "d", " ", "e", "x", "t", "r", "a", "c", "t", "i", "o", "n", " ", "n",
      "e", "e", "d", "s", " ", "m", "a", "n", "u", "a", "l", " ", "r", "e",
      "v", "i", "e", "w">>

\* The str: Job analysis completed - manual review recommended
JobAnalysisFallback ==
    <<"J", "o", "b", " ", "a", "n", "a", "l", "y", "s", "i", "s", " ", "c",
      "o", "m", "p", "l", "e", "t", "e", "d", " ", "-", " ", "m", "a", "n",
      "u", "a", "l", " ", "r", "e", "v", "i", "e", "w", " ", "r", "e", "c",
      "o", "m", "m", "e", "n", "d", "e", "d">>

\* The str: Error occurred during processing - manual review needed
ErrorReasoning ==
    <<"E", "r", "r", "o", "r", " ", "o", "c", "c", "u", "r", "r", "e", "d",
      " ", "d", "u", "r", "i", "n", "g", " ", "p", "r", "o", "c", "e", "s",
      "s", "i", "n", "g", " ", "-", " ", "m", "a", "n", "u", "a", "l", " ",
      "r", "e", "v", "i", "e", "w", " ", "n", "e", "e", "d", "e", "d">>

(***************************************************************************)
(* Field parsing of the strict tier (lines 308-363).                       *)
(***************************************************************************)

\* The first index >= i of s that holds no whitespace (Len(s) + 1 if none):
\* where the greedy \s* of the split pattern stops.
SkipSpace(s, i) ==
    IF \E k \in i..Len(s) : s[k] \notin Whitespace
    THEN CHOOSE k \in i..Len(s) :
            /\ s[k] \notin Whitespace
            /\ \A m \in i..(k - 1) : s[m] \in Whitespace
    ELSE Len(s) + 1

\* The pattern (?:\d+\.\s*|\n) matches at s[p]: a newline, or a digit whose
\* run of digits is followed by a '.'.
SeparatorAt(s, p) ==
    \/ s[p] = "\n"
    \/ /\ IsDigit(s[p])
       /\ LET j == DigitRunEnd(s, p)
          IN  j + 1 <= Len(s) /\ s[j + 1] = "."

\* The index of the leftmost match of the pattern in s at or after index i,
\* 0 if there is none.
FindSeparator(s, i) ==
    IF \E p \in i..Len(s) : SeparatorAt(s, p)
    THEN CHOOSE p \in i..Len(s) :
            SeparatorAt(s, p) /\ \A m \in i..(p - 1) : ~SeparatorAt(s, m)
    ELSE 0

\* The index after the match at s[p]: past the newline, or past the digits,
\* the '.' and the whitespace the greedy \s* takes.
SeparatorEnd(s, p) ==
    IF s[p] = "\n" THEN p + 1 ELSE SkipSpace(s, DigitRunEnd(s, p) + 2)

RECURSIVE ReSplitFrom(_, _, _)
\* re.split(r'(?:\d+\.\s*|\n)', s) of s[start-1:], p the index of the
\* leftmost match (0 if none): one step per piece. A run of digits is a
\* separator only when a '.' follows it.
ReSplitFrom(s, start, p) ==
    IF p = 0 THEN <<SubSeq(s, start, Len(s))>>
    ELSE <<SubSeq(s, start, p - 1)>>
            \o ReSplitFrom(s, SeparatorEnd(s, p), FindSeparator(s, SeparatorEnd(s, p)))

\* re.split(r'(?:\d+\.\s*|\n)', questions_str)
ReSplit(s) == ReSplitFrom(s, 1, FindSeparator(s, 1))

\* replace('<br>', '\n').replace('<br/>', '\n').replace('<br />', '\n')
ReplaceBreaks(s) ==
    Replace(Replace(Replace(s, Br1, <<"\n">>), Br2, <<"\n">>), Br3, <<"\n">>)

\* EnsureQuestionMark without the append: the fragment as it is.
KeepPart(part) == part

\* Lines 341-343: a question ends with a question mark.
EnsureQuestionMark(part) == IF EndsWith(part, <<"?">>) THEN part ELSE part \o <<"?">>

RECURSIVE StrictQuestionParts(_)
\* Lines 338-344: the loop over question_parts.
StrictQuestionParts(question_parts) ==
    IF question_parts = <<>> THEN <<>>
    ELSE LET part == Strip(Head(question_parts))
             rest == StrictQuestionParts(Tail(question_parts))
         IN  IF part # <<>> /\ Len(part) > 5
             THEN <<EnsureQuestionMark(part)>> \o rest
             ELSE rest

\* Lines 333-347: the strict tier's questions of a questions cell.
StrictQuestions(questions_str) ==
    LET questions_list ==
            IF questions_str # <<>>
            THEN StrictQuestionParts(ReSplit(questions_str))
            ELSE <<>>
    IN  IF questions_list = <<>> THEN <<DefaultQuestion>> ELSE questions_list

\* Lines 350 and 353: not x or x.lower() in ['not found', 'n/a', '']
IsMissing(x) == x = <<>> \/ Lower(x) \in {NotFound, NA, <<>>}

\* f"Candidate {len(candidates) + 1}"
CandidateName(candidates) == CandidatePrefix \o IntToStr(Len(candidates) + 1)

\* [cell.strip() for cell in line.split('|')[1:-1]]
Cells(line) ==
    LET inner == Inner(Split(line, "|"))
    IN  [i \in 1..Len(inner) |-> Strip(inner[i])]

\* Lines 309-363: the candidate of a data row of at least 5 cells; ok = FALSE
\* when the construction raises (the except clause of line 365 then skips
\* the row).
StrictCandidate(cells, candidates) ==
    LET name          == Strip(cells[1])
        mobile        == Strip(cells[2])
        score_str     == Strip(cells[3])
        questions_str == ReplaceBreaks(Strip(cells[4]))
        reasoning     == ReplaceBreaks(Strip(cells[5]))
    IN  CandidateEvaluation(
            IF IsMissing(name) THEN CandidateName(candidates) ELSE name,
            IF IsMissing(mobile) THEN NotAvailable ELSE mobile,
            StrictScore(score_str),
            StrictQuestions(questions_str),
            reasoning)

(***************************************************************************)
(* Tier 1: the strict table scan (lines 285-372).                          *)
(*                                                                         *)
(* Beside the locals of the code, a scan carries origin (for each          *)
(* candidate, the number of the line of the report it was parsed from, 0   *)
(* for a placeholder) and warnings (the rows given up with                 *)
(* logger.warning by an except clause).                                    *)
(***************************************************************************)

\* Lines 285 and 295: the three column markers are in s.
HasHeaderMarkers(s) ==
    Contains(s, HeaderName) /\ Contains(s, HeaderMobile) /\ Contains(s, HeaderScore)

\* The locals before the loop (lines 281-289).
ScanStart ==
    [header_found  |-> FALSE,
     table_started |-> FALSE,
     candidates    |-> <<>>,
     job_analysis  |-> <<>>,
     origin        |-> <<>>,
     warnings      |-> 0]

\* Lines 292-372: one iteration of the loop, on line number idx.
StrictLine(st, raw, idx) ==
    LET line == Strip(raw)
    IN  IF HasHeaderMarkers(line)
        THEN [st EXCEPT !.header_found = TRUE]
        ELSE IF st.header_found /\ StartsWith(line, <<"|">>) /\ Contains(line, <<"-">>)
        THEN [st EXCEPT !.table_started = TRUE]
        ELSE IF st.table_started /\ StartsWith(line, <<"|">>) /\ EndsWith(line, <<"|">>)
        THEN LET cells == Cells(line)
             IN  IF Len(cells) >= 5
                 THEN LET candidate == StrictCandidate(cells, st.candidates)
                      IN  IF candidate.ok
                          THEN [st EXCEPT !.candidates = Append(@, candidate),
                                          !.origin = Append(@, idx)]
                          ELSE [st EXCEPT !.warnings = @ + 1]
                 ELSE st
        ELSE IF ~st.header_found /\ line # <<>> /\ ~StartsWith(line, Fence)
        THEN [st EXCEPT !.job_analysis = @ \o line \o <<"\n">>]
        ELSE st

RECURSIVE StrictLoop(_, _, _)
\* for line in lines, from line number idx on.
StrictLoop(st, lines, idx) ==
    IF idx > Len(lines) THEN st
    ELSE StrictLoop(StrictLine(st, lines[idx], idx), lines, idx + 1)

\* Lines 281-377: the strict tier and the job analysis.
StrictTier(result_text) ==
    LET st == IF HasHeaderMarkers(result_text)
              THEN StrictLoop(ScanStart, Split(result_text, "\n"), 1)
              ELSE ScanStart
        job_analysis == Strip(st.job_analysis)
    IN  [st EXCEPT !.job_analysis =
            IF job_analysis = <<>> THEN JobAnalysisDefault ELSE job_analysis]

(***************************************************************************)
(* Tier 2: the alternative scan (lines 380-423).                           *)
(***************************************************************************)

RECURSIVE LooseQuestionParts(_)
\* Lines 407-408: the list comprehension over questions_str.split('\n').
LooseQuestionParts(qs) ==
    IF qs = <<>> THEN <<>>
    ELSE LET q == Strip(Head(qs))
             rest == LooseQuestionParts(Tail(qs))
         IN  IF q # <<>>
             THEN <<q \o (IF EndsWith(q, <<"?">>) THEN <<>> ELSE <<"?">>)>> \o rest
             ELSE rest

\* Lines 406-410: the alternative tier's questions of a questions cell.
LooseQuestions(questions_str) ==
    LET questions_list == LooseQuestionParts(Split(questions_str, "\n"))
    IN  IF questions_list = <<>> THEN <<DefaultQuestion>> ELSE questions_list

\* Lines 394-418: the candidate of a line of at least 6 parts.
LooseCandidate(parts, candidates) ==
    LET name          == Strip(parts[2])
        mobile        == Strip(parts[3])
        score_str     == Strip(parts[4])
        questions_str == Strip(parts[5])
        reasoning     == Strip(parts[6])
    IN  CandidateEvaluation(
            IF name # <<>> THEN name ELSE CandidateName(candidates),
            IF mobile # <<>> THEN mobile ELSE NotAvailable,
            LooseScore(score_str),
            LooseQuestions(questions_str),
            IF reasoning # <<>> THEN reasoning ELSE AnalysisCompleted)

\* Line 383: '|' in line and len(line.split('|')) >= 6
IsTableLine(line) == Contains(line, <<"|">>) /\ Len(Split(line, "|")) >= 6

\* Lines 385-423: one iteration of the loop over the lines of the report
\* (those that are no table line are not in table_lines).
LooseLine(st, line, idx) ==
    IF ~IsTableLine(line) THEN st
    ELSE IF Contains(line, WordName) /\ Contains(line, WordMobile) THEN st
    ELSE IF Contains(line, Dashes) \/ Contains(line, Equals) THEN st
    ELSE LET parts == Split(line, "|")
         IN  IF Len(parts) >= 6
             THEN LET candidate == LooseCandidate(parts, st.candidates)
                  IN  IF candidate.ok
                      THEN [st EXCEPT !.candidates = Append(@, candidate),
                                      !.origin = Append(@, idx)]
                      ELSE [st EXCEPT !.warnings = @ + 1]
             ELSE st

RECURSIVE LooseLoop(_, _, _)
LooseLoop(st, lines, idx) ==
    IF idx > Len(lines) THEN st
    ELSE LooseLoop(LooseLine(st, lines[idx], idx), lines, idx + 1)

\* Lines 380-423: run only when the strict tier left no candidate and the
\* report holds a '|'.
LooseTier(st, result_text) ==
    IF st.candidates = <<>> /\ Contains(result_text, <<"|">>)
    THEN LooseLoop(st, Split(result_text, "\n"), 1)
    ELSE st

(***************************************************************************)
(* Tier 3, the response and the whole-function fallback (lines 425-457).   *)
(***************************************************************************)

\* Lines 428-434: the placeholder candidate.
PlaceholderCandidate ==
    CandidateEvaluation(CandidatePrefix \o <<"1">>, ContactNotExtracted, Float(5),
                        <<DefaultQuestion, SecondQuestion>>, NeedsManualReview)

\* Lines 449-455: the candidate of the whole-function fallback.
FallbackCandidate ==
    CandidateEvaluation(CandidatePrefix \o <<"1">>, NotAvailable, Float(5),
                        <<DefaultQuestion>>, ErrorReasoning)

\* PlaceholderTier without the placeholder: the candidates as the scans left them.
PlaceholderTierSkipped(st) == st @@ [ok |-> TRUE]

\* Lines 426-434: ok = FALSE when the construction of the placeholder raises.
PlaceholderTier(st) ==
    IF st.candidates = <<>>
    THEN [st EXCEPT !.candidates = <<PlaceholderCandidate>>, !.origin = <<0>>] @@
         [ok |-> PlaceholderCandidate.ok]
    ELSE st @@ [ok |-> TRUE]

\* The result of a call: the response it returns (raised = FALSE) or the
\* exception that leaves it, with the tier that made the candidates.
Returned(response, tier, origin, warnings) ==
    [raised |-> FALSE, response |-> response, tier |-> tier,
     origin |-> origin, warnings |-> warnings]

Raised ==
    [raised |-> TRUE, response |-> ShortlistResponse(<<>>, <<>>, 0),
     tier |-> "none", origin |-> <<>>, warnings |-> 0]

\* Lines 442-457: the except clause of the whole function.
WholeFunctionFallback(total_candidates, warnings) ==
    IF FallbackCandidate.ok
    THEN Returned(ShortlistResponse(JobAnalysisFallback, <<FallbackCandidate>>,
                                    total_candidates),
                  "fallback", <<0>>, warnings)
    ELSE Raised

\* Lines 273-457.
parse_crew_result(result_text, total_candidates) ==
    LET strict == StrictTier(result_text)
        loose  == LooseTier(strict, result_text)
        final  == PlaceholderTier(loose)
        tier   == IF strict.candidates # <<>> THEN "strict"
                  ELSE IF loose.candidates # <<>> THEN "loose"
                  ELSE "placeholder"
    IN  IF final.ok
        THEN Returned(ShortlistResponse(final.job_analysis, final.candidates,
                                        total_candidates),
                      tier, final.origin, final.warnings)
        ELSE WholeFunctionFallback(total_candidates, final.warnings)

(***************************************************************************)
(* The reports the extractor is run on: lines of a report of the crew.     *)
(***************************************************************************)

\* The line: | Name | Mobile | Score | Questions | Reasoning |
HeaderLine ==
    <<"|", " ", "N", "a", "m", "e", " ", "|", " ", "M", "o", "b", "i", "l",
      "e", " ", "|", " ", "S", "c", "o", "r", "e", " ", "|", " ", "Q", "u",
      "e", "s", "t", "i", "o", "n", "s", " ", "|", " ", "R", "e", "a", "s",
      "o", "n", "i", "n", "g", " ", "|">>

\* The line: |---|---|---|---|---|
SeparatorLine ==
    <<"|", "-", "-", "-", "|", "-", "-", "-", "|", "-", "-", "-", "|", "-",
      "-", "-", "|", "-", "-", "-", "|">>

\* The line: Analysis: Python required
ProseLine ==
    <<"A", "n", "a", "l", "y", "s", "i", "s", ":", " ", "P", "y", "t", "h",
      "o", "n", " ", "r", "e", "q", "u", "i", "r", "e", "d">>

\* The line: Skills: Python | SQL
PipeProseLine ==
    <<"S", "k", "i", "l", "l", "s", ":", " ", "P", "y", "t", "h", "o", "n",
      " ", "|", " ", "S", "Q", "L">>

\* The line: | Jane Doe | 555-1234 | 8/10 | 1. Tell me about X | Strong fit |
RowJane ==
    <<"|", " ", "J", "a", "n", "e", " ", "D", "o", "e", " ", "|", " ", "5",
      "5", "5", "-", "1", "2", "3", "4", " ", "|", " ", "8", "/", "1", "0",
      " ", "|", " ", "1", ".", " ", "T", "e", "l", "l", " ", "m", "e", " ",
      "a", "b", "o", "u", "t", " ", "X", " ", "|", " ", "S", "t", "r", "o",
      "n", "g", " ", "f", "i", "t", " ", "|">>

\* The line: | N/A | 5550000 | 95 | Why us? | Good |
RowSentinel ==
    <<"|", " ", "N", "/", "A", " ", "|", " ", "5", "5", "5", "0", "0", "0",
      "0", " ", "|", " ", "9", "5", " ", "|", " ", "W", "h", "y", " ", "u",
      "s", "?", " ", "|", " ", "G", "o", "o", "d", " ", "|">>

\* The line: | Bob | n/a | 150 | 1. Describe Y<br>2. Why Z? |  |
RowBob ==
    <<"|", " ", "B", "o", "b", " ", "|", " ", "n", "/", "a", " ", "|", " ",
      "1", "5", "0", " ", "|", " ", "1", ".", " ", "D", "e", "s", "c", "r",
      "i", "b", "e", " ", "Y", "<", "b", "r", ">", "2", ".", " ", "W", "h",
      "y", " ", "Z", "?", " ", "|", " ", " ", "|">>

\* The line: | N/A | 555-0000 | 95 | ok | |
RowLooseNA ==
    <<"|", " ", "N", "/", "A", " ", "|", " ", "5", "5", "5", "-", "0", "0",
      "0", "0", " ", "|", " ", "9", "5", " ", "|", " ", "o", "k", " ", "|",
      " ", "|">>

\* The line: | Al | 12 | none |  | fine |
RowNoScore ==
    <<"|", " ", "A", "l", " ", "|", " ", "1", "2", " ", "|", " ", "n", "o",
      "n", "e", " ", "|", " ", " ", "|", " ", "f", "i", "n", "e", " ", "|">>

\* The line: | x | y | 3 |
RowShort ==
    <<"|", " ", "x", " ", "|", " ", "y", " ", "|", " ", "3", " ", "|">>

\* The line: | Cy | 1 | 0.5 | Skills? | ok |
RowLow ==
    <<"|", " ", "C", "y", " ", "|", " ", "1", " ", "|", " ", "0", ".", "5",
      " ", "|", " ", "S", "k", "i", "l", "l", "s", "?", " ", "|", " ", "o",
      "k", " ", "|">>

\* The data rows a report is made of.
RowPool == {RowJane, RowSentinel, RowBob, RowLooseNA, RowNoScore, RowShort, RowLow}

\* The most data rows of a report.
MaxRows == 2

\* The largest file count handed to the extractor.
MaxTotal == 2

\* What precedes the table: nothing, prose, a fenced block, prose with a '|'.
Preambles == {<<>>, <<ProseLine>>, <<Fence, ProseLine, Fence>>, <<PipeProseLine>>}

\* The sequences of at most n rows.
RowSeqs(n) == UNION {[1..k -> RowPool] : k \in 0..n}

\* The text of a report: its lines joined by newlines.
ReportText(lines) == Join(lines, <<"\n">>)

\* The reports: a preamble, then a header line or none, a separator line or
\* none, and the data rows.
Reports ==
    {ReportText(pre \o h \o sep \o rows) :
        pre \in Preambles, h \in {<<>>, <<HeaderLine>>},
        sep \in {<<>>, <<SeparatorLine>>}, rows \in RowSeqs(MaxRows)}

(***************************************************************************)
(* shortlist_resumes and cleanup_files (lines 122-271): the inputs.        *)
(***************************************************************************)

\* The str: .pdf
DotPdf ==
    <<".", "p", "d", "f">>

\* temp_dir, the directory made by tempfile.mkdtemp() at startup.
TempDir ==
    <<"/", "t", "m", "p", "/", "x">>

\* The file names a client uploads.
NameA ==
    <<"a", ".", "p", "d", "f">>

NameB ==
    <<"b", ".", "P", "D", "F">>

NameTxt ==
    <<"a", ".", "t", "x", "t">>

\* 5 * 1024 * 1024, the size limit of line 216.
MaxFileSize == 5 * 1024 * 1024

\* The limit of line 200 on the number of files.
MaxResumeFiles == 20

\* The uploads: an UploadFile is its filename and its size.
UploadPool ==
    {[filename |-> NameA, size |-> 1024],
     [filename |-> NameB, size |-> 1024],
     [filename |-> NameTxt, size |-> 1024],
     [filename |-> NameA, size |-> MaxFileSize + 1]}

\* The most requests in flight, and the most files of a request.
MaxRequests == 2

MaxUploads == 2

Requests == 1..MaxRequests

UploadSeqs == UNION {[1..k -> UploadPool] : k \in 0..MaxUploads}

\* os.path.join(temp_dir, file.filename), for a filename without '/'.
PathJoin(dir, filename) == dir \o <<"/">> \o filename

Paths == {PathJoin(TempDir, u.filename) : u \in UploadPool}

\* What the generator answers: its report is opaque.
GeneratorReports == {ReportText(<<RowLow>>), ReportText(<<ProseLine>>)}

\* The content of a path of the temp directory: no file, a file opened and
\* truncated, or the bytes of file k of request r.
Absent == [kind |-> "absent", req |-> 0, k |-> 0]

Truncated == [kind |-> "empty", req |-> 0, k |-> 0]

ContentOf(r, k) == [kind |-> "data", req |-> r, k |-> k]

(***************************************************************************)
(* The state.                                                              *)
(***************************************************************************)

VARIABLES
    pc,                \* "start": parse_crew_result is to be called; "done": it has returned
    result_text,       \* str(result), the report it is called on
    total_candidates,  \* its total_candidates argument
    result,            \* what the call gave (Returned or Raised)
    rpc,               \* per request, where shortlist_resumes stands
    resume_files,      \* per request, the uploads
    idx,               \* per request, the number of the file the loop of line 209 is at
    saved_files,       \* per request, the list saved_files
    fs,                \* the content of each path of temp_dir
    scheduled,         \* per request, the path lists given to add_task(cleanup_files, ...)
    status_code,       \* per request, the status of the response (0: none yet)
    response,          \* per request, the result of parse_crew_result returned
    seen               \* per request, what the generator found at each saved path

parser_vars == <<pc, result_text, total_candidates, result>>

server_vars == <<rpc, resume_files, idx, saved_files, fs, scheduled, status_code,
                 response, seen>>

vars == <<pc, result_text, total_candidates, result, rpc, resume_files, idx,
          saved_files, fs, scheduled, status_code, response, seen>>

\* No call has been made yet.
NoResult ==
    [raised |-> FALSE, response |-> ShortlistResponse(<<>>, <<>>, 0),
     tier |-> "none", origin |-> <<>>, warnings |-> 0]

\* The server before any request: the temp directory is empty.
ServerIdle ==
    /\ rpc = [r \in Requests |-> "idle"]
    /\ resume_files = [r \in Requests |-> <<>>]
    /\ idx = [r \in Requests |-> 1]
    /\ saved_files = [r \in Requests |-> <<>>]
    /\ fs = [p \in Paths |-> Absent]
    /\ scheduled = [r \in Requests |-> <<>>]
    /\ status_code = [r \in Requests |-> 0]
    /\ response = [r \in Requests |-> NoResult]
    /\ seen = [r \in Requests |-> <<>>]

(***************************************************************************)
(* The extractor on its own: every report, every file count.               *)
(***************************************************************************)

Init ==
    /\ pc = "start"
    /\ result_text \in Reports
    /\ total_candidates \in 0..MaxTotal
    /\ result = NoResult
    /\ ServerIdle

\* The call parse_crew_result(result, total_candidates).
Parse ==
    /\ pc = "start"
    /\ result' = parse_crew_result(result_text, total_candidates)
    /\ pc' = "done"
    /\ UNCHANGED <<result_text, total_candidates>>
    /\ UNCHANGED server_vars

Next == Parse

Spec == Init /\ [][Next]_vars

(***************************************************************************)
(* The upload handler: requests run on one event loop, so that the code    *)
(* between two awaits is one step. The awaits of shortlist_resumes are     *)
(* those of the loop of line 209 (the open, the read and write, the close  *)
(* of line 225-227); crew().kickoff() is a blocking call, and              *)
(* cleanup_files awaits nothing.                                           *)
(***************************************************************************)

\* The job descriptions a client sends.
JobDescriptions == {<<" ">>, <<"d", "e", "v">>}

\* ErrorExit without the add_task calls of lines 257 and 266.
ErrorExitNoCleanup(r, code) ==
    /\ scheduled' = scheduled
    /\ status_code' = [status_code EXCEPT ![r] = code]
    /\ rpc' = [rpc EXCEPT ![r] = "failed"]

\* Lines 254-271: the except clauses. The cleanup is scheduled when
\* saved_files is not empty, and the request ends with an error status.
ErrorExit(r, code) ==
    /\ scheduled' = [scheduled EXCEPT ![r] =
            IF saved_files[r] # <<>> THEN Append(@, saved_files[r]) ELSE @]
    /\ status_code' = [status_code EXCEPT ![r] = code]
    /\ rpc' = [rpc EXCEPT ![r] = "failed"]

\* Lines 184-206: a request arrives and its inputs are validated.
Receive(r) ==
    /\ rpc[r] = "idle"
    /\ \E job_description \in JobDescriptions, files \in UploadSeqs :
          /\ resume_files' = [resume_files EXCEPT ![r] = files]
          /\ IF \/ Strip(job_description) = <<>>
                \/ files = <<>>
                \/ Len(files) > MaxResumeFiles
             THEN ErrorExit(r, 400)
             ELSE /\ rpc' = [rpc EXCEPT ![r] = "loop"]
                  /\ UNCHANGED <<scheduled, status_code>>
    /\ UNCHANGED <<idx, saved_files, fs, response, seen>>
    /\ UNCHANGED parser_vars

\* Lines 209-225: the file is validated, its path joins saved_files and the
\* path is opened for writing, which creates or truncates it.
OpenFile(r) ==
    /\ rpc[r] = "loop"
    /\ LET file == resume_files[r][idx[r]]
           file_path == PathJoin(TempDir, file.filename)
       IN  IF \/ ~EndsWith(Lower(file.filename), DotPdf)
              \/ file.size > MaxFileSize
           THEN /\ ErrorExit(r, 400)
                /\ UNCHANGED <<saved_files, fs>>
           ELSE /\ saved_files' = [saved_files EXCEPT ![r] = Append(@, file_path)]
                /\ fs' = [fs EXCEPT ![file_path] = Truncated]
                /\ rpc' = [rpc EXCEPT ![r] = "write"]
                /\ UNCHANGED <<scheduled, status_code>>
    /\ UNCHANGED <<resume_files, idx, response, seen>>
    /\ UNCHANGED parser_vars

\* Lines 226-229: the content is read and written, and the loop goes on to
\* the next file or leaves for the generator.
WriteFile(r) ==
    /\ rpc[r] = "write"
    /\ fs' = [fs EXCEPT ![saved_files[r][Len(saved_files[r])]] = ContentOf(r, idx[r])]
    /\ idx' = [idx EXCEPT ![r] = @ + 1]
    /\ rpc' = [rpc EXCEPT ![r] =
            IF idx[r] = Len(resume_files[r]) THEN "kickoff" ELSE "loop"]
    /\ UNCHANGED <<resume_files, saved_files, scheduled, status_code, response, seen>>
    /\ UNCHANGED parser_vars

\* Lines 226-227 raise (the read or the write fails): lines 260-271.
WriteFails(r) ==
    /\ rpc[r] = "write"
    /\ ErrorExit(r, 500)
    /\ UNCHANGED <<resume_files, idx, saved_files, fs, response, seen>>
    /\ UNCHANGED parser_vars

\* What is at each path of saved_files when the generator reads them.
FilesSeen(r) == [k \in 1..Len(saved_files[r]) |-> fs[saved_files[r][k]]]

\* Lines 246-252, with response_data the result of parse_crew_result: the
\* cleanup is scheduled and the response returned. Were parse_crew_result
\* to raise, line 260 would schedule the cleanup once more and answer 500.
Respond(r, response_data) ==
    /\ response' = [response EXCEPT ![r] = response_data]
    /\ scheduled' = [scheduled EXCEPT ![r] =
            IF response_data.raised
            THEN Append(Append(@, saved_files[r]), saved_files[r])
            ELSE Append(@, saved_files[r])]
    /\ status_code' = [status_code EXCEPT ![r] =
            IF response_data.raised THEN 500 ELSE 200]
    /\ rpc' = [rpc EXCEPT ![r] =
            IF response_data.raised THEN "failed" ELSE "responded"]

\* Lines 232-252: the generator reads the files and returns a report, which
\* is parsed with the number of uploads as file count.
Kickoff(r) ==
    /\ rpc[r] = "kickoff"
    /\ \E report \in GeneratorReports :
          Respond(r, parse_crew_result(report, Len(resume_files[r])))
    /\ seen' = [seen EXCEPT ![r] = FilesSeen(r)]
    /\ UNCHANGED <<resume_files, idx, saved_files, fs>>
    /\ UNCHANGED parser_vars

\* Line 242 raises: lines 260-271.
KickoffFails(r) ==
    /\ rpc[r] = "kickoff"
    /\ ErrorExit(r, 500)
    /\ seen' = [seen EXCEPT ![r] = FilesSeen(r)]
    /\ UNCHANGED <<resume_files, idx, saved_files, fs, response>>
    /\ UNCHANGED parser_vars

\* The paths of a list.
PathsOf(file_paths) == {file_paths[k] : k \in 1..Len(file_paths)}

\* Lines 122-130: cleanup_files(file_paths), run as a background task once
\* the request is over: every path of the list that exists is removed.
cleanup_files(r) ==
    /\ rpc[r] \in {"responded", "failed"}
    /\ scheduled[r] # <<>>
    /\ fs' = [p \in Paths |->
            IF p \in PathsOf(Head(scheduled[r])) THEN Absent ELSE fs[p]]
    /\ scheduled' = [scheduled EXCEPT ![r] = Tail(@)]
    /\ UNCHANGED <<rpc, resume_files, idx, saved_files, status_code, response, seen>>
    /\ UNCHANGED parser_vars

InitSrv ==
    /\ pc = "done"
    /\ result_text = <<>>
    /\ total_candidates = 0
    /\ result = NoResult
    /\ ServerIdle

NextSrv ==
    \E r \in Requests :
        \/ Receive(r)
        \/ OpenFile(r)
        \/ WriteFile(r)
        \/ WriteFails(r)
        \/ Kickoff(r)
        \/ KickoffFails(r)
        \/ cleanup_files(r)

SpecSrv == InitSrv /\ [][NextSrv]_vars

\* The server when only the first MaxActive requests arrive: the paths of
\* one request through the handler, alone or beside the others.
MaxActive == 1

NextActive ==
    \E r \in 1..MaxActive :
        \/ Receive(r)
        \/ OpenFile(r)
        \/ WriteFile(r)
        \/ WriteFails(r)
        \/ Kickoff(r)
        \/ KickoffFails(r)
        \/ cleanup_files(r)

SpecActive == InitSrv /\ [][NextActive]_vars

(***************************************************************************)
(* Properties of parse_crew_result, checked under Spec.                    *)
(***************************************************************************)

\* The call has returned or raised.
Done == pc = "done"

\* The candidates of the response.
Candidates == result.response.candidates

\* The line of the report candidate i was parsed from.
SourceLine(i) == Split(result_text, "\n")[result.origin[i]]

\* Cell k (1 = name .. 5 = reasoning) of a table line, trimmed.
RawCell(line, k) == Strip(Split(line, "|")[k + 1])

\* 1.0 <= score <= 10.0
InRange(score) == score.den <= score.num /\ score.num <= 10 * score.den

\* C1: parse_crew_result returns a response without raising and its list of
\* candidates is never empty; when neither scan yields a row (as for a report
\* without any '|') the list holds exactly the one placeholder candidate.
C1_NeverEmpty ==
    Done =>
        /\ ~result.raised
        /\ Len(Candidates) >= 1
        /\ (result.tier = "placeholder" \/ ~Contains(result_text, <<"|">>)) =>
              /\ Len(Candidates) = 1
              /\ result.origin = <<0>>
              /\ Candidates[1].name = CandidatePrefix \o <<"1">>
              /\ Candidates[1].mobile = ContactNotExtracted

\* A report without '|' has been parsed to the single placeholder.
C1_Witness ==
    /\ Done
    /\ ~Contains(result_text, <<"|">>)
    /\ result_text # <<>>
    /\ Len(Candidates) = 1
    /\ result.tier = "placeholder"

\* The report is the header line, one separator line and N >= 1 data rows
\* that start and end with '|' and have at least 5 cells.
WellFormedTable ==
    LET lines == Split(result_text, "\n")
    IN  /\ Len(lines) >= 3
        /\ lines[1] = HeaderLine
        /\ lines[2] = SeparatorLine
        /\ \A i \in 3..Len(lines) :
              /\ StartsWith(lines[i], <<"|">>)
              /\ EndsWith(lines[i], <<"|">>)
              /\ Len(Inner(Split(lines[i], "|"))) >= 5

\* C2: a well-formed table report with N data rows is parsed to exactly N
\* candidates, one per row, in the order of the rows.
C2_AllRowsInOrder ==
    (Done /\ WellFormedTable) =>
        LET n == Len(Split(result_text, "\n")) - 2
        IN  /\ Len(Candidates) = n
            /\ \A i \in 1..n : result.origin[i] = i + 2

\* C3: every candidate of every returned result has a score in [1.0, 10.0],
\* whatever the raw score cell holds: the score is brought into the range,
\* and no row is given up because its score does not validate.
C3_ScoreInRange ==
    Done =>
        /\ \A i \in 1..Len(Candidates) : InRange(Candidates[i].score)
        /\ result.warnings = 0

\* A row whose raw score (150) is outside the range gave a candidate, of
\* score 10.0.
C3_Witness ==
    /\ Done
    /\ \E i \in 1..Len(Candidates) :
          /\ result.origin[i] # 0
          /\ SourceLine(i) = RowBob
          /\ FloatEq(Candidates[i].score, Float(10))

\* C4: a candidate parsed from a row whose score cell's first number v is
\* greater than 10 has the score v/10 clamped to [1, 10], in every tier.
C4_PercentScaled ==
    Done =>
        \A i \in 1..Len(Candidates) :
            result.origin[i] # 0 =>
                LET m == ScoreMatch(RawCell(SourceLine(i), 3))
                    v == ToFloat(m)
                IN  (m.found /\ v.num > 10 * v.den) =>
                        IF v.num > 100 * v.den
                        THEN FloatEq(Candidates[i].score, Float(10))
                        ELSE FloatEq(Candidates[i].score, DivTen(v))

\* The str: Jane Doe
JaneName ==
    <<"J", "a", "n", "e", " ", "D", "o", "e">>

\* The str: 555-1234
JaneMobile ==
    <<"5", "5", "5", "-", "1", "2", "3", "4">>

\* The str: Tell me about X?
JaneQuestion ==
    <<"T", "e", "l", "l", " ", "m", "e", " ", "a", "b", "o", "u", "t", " ",
      "X", "?">>

\* The str: Strong fit
JaneReasoning ==
    <<"S", "t", "r", "o", "n", "g", " ", "f", "i", "t">>

\* C5: the report whose table has the single data row Jane Doe, 555-1234,
\* 8/10, "1. Tell me about X", Strong fit is parsed to exactly one candidate
\* with these fields, score 8.0 and the one question "Tell me about X?".
C5_JaneRoundTrip ==
    (Done /\ result_text = ReportText(<<HeaderLine, SeparatorLine, RowJane>>)) =>
        /\ Len(Candidates) = 1
        /\ Candidates[1].name = JaneName
        /\ Candidates[1].mobile = JaneMobile
        /\ FloatEq(Candidates[1].score, Float(8))
        /\ Candidates[1].questions = <<JaneQuestion>>
        /\ Candidates[1].reasoning = JaneReasoning

\* C6: every candidate of every returned result has at least one question,
\* and every question is non-empty and ends with '?'.
C6_QuestionsEndWithMark ==
    Done =>
        \A i \in 1..Len(Candidates) :
            /\ Len(Candidates[i].questions) >= 1
            /\ \A k \in 1..Len(Candidates[i].questions) :
                  LET q == Candidates[i].questions[k]
                  IN  q # <<>> /\ q[Len(q)] = "?"

\* The strict tier appended the '?' to a fragment of a row that lacks it.
C6_Witness ==
    /\ Done
    /\ result.tier = "strict"
    /\ \E i \in 1..Len(Candidates) :
          \E k \in 1..Len(Candidates[i].questions) :
              LET q == Candidates[i].questions[k]
              IN  /\ result.origin[i] # 0
                  /\ Len(q) > 1
                  /\ Contains(SourceLine(i), SubSeq(q, 1, Len(q) - 1))
                  /\ ~Contains(SourceLine(i), q)

\* C7: in a table report, the candidate of a row whose name cell is a
\* missing-value sentinel ("not found", "n/a" in any case, or empty) is named
\* "Candidate k", k its position among the returned candidates.
C7_SentinelName ==
    (Done /\ HasHeaderMarkers(result_text)) =>
        \A i \in 1..Len(Candidates) :
            (result.origin[i] # 0
             /\ Lower(RawCell(SourceLine(i), 1)) \in {NotFound, NA, <<>>}) =>
                Candidates[i].name = CandidatePrefix \o IntToStr(i)

\* C8: every candidate of every returned result has a non-empty reasoning.
C8_ReasoningNonEmpty ==
    Done => \A i \in 1..Len(Candidates) : Candidates[i].reasoning # <<>>

\* C9: the total_candidates of the result is the total_candidates argument,
\* whatever the number of candidates in it.
C9_TotalEchoed ==
    Done =>
        /\ ~result.raised
        /\ result.response.total_candidates = total_candidates

\* A placeholder result of one candidate echoes a file count of 2.
C9_Witness ==
    /\ Done
    /\ result.tier = "placeholder"
    /\ total_candidates = 2
    /\ Len(Candidates) = 1
    /\ result.response.total_candidates = 2
(***************************************************************************)
(* Properties of shortlist_resumes, checked under SpecSrv and SpecActive.  *)
(***************************************************************************)

\* The request holds files in the temp directory that it has yet to hand to
\* the generator.
InFlight(r) == rpc[r] \in {"loop", "write", "kickoff"}

\* C10: the files of the requests in flight are written to distinct paths
\* (any two files of two requests, and any two files of one request), so
\* that each file a request has written is still there, with the content it
\* wrote, when the request calls the generator.
C10_UniquePaths ==
    /\ \A r1 \in Requests, r2 \in Requests :
          (InFlight(r1) /\ InFlight(r2)) =>
              \A k1 \in 1..Len(saved_files[r1]), k2 \in 1..Len(saved_files[r2]) :
                  <<r1, k1>> # <<r2, k2>> => saved_files[r1][k1] # saved_files[r2][k2]
    /\ \A r \in Requests :
          rpc[r] = "kickoff" =>
              \A k \in 1..Len(saved_files[r]) : fs[saved_files[r][k]] = ContentOf(r, k)
\* The paths request r has opened for writing so far: those of the files
\* the loop of line 209 has been through, and of the file it is writing.
PersistedPaths(r) ==
    {PathJoin(TempDir, resume_files[r][k].filename) :
        k \in 1..(IF rpc[r] = "write" THEN idx[r] ELSE idx[r] - 1)}

\* C11: when a request that has persisted at least one file ends in an error
\* (a later file does not validate, a write fails, the generator raises),
\* the step that ends it has given add_task a cleanup_files task whose list
\* holds every path the request has persisted.
C11_CleanupScheduledOnError ==
    [][\A r \in Requests :
          (rpc[r] # "failed" /\ rpc'[r] = "failed" /\ PersistedPaths(r) # {}) =>
              /\ Len(scheduled'[r]) = Len(scheduled[r]) + 1
              /\ PersistedPaths(r) \subseteq PathsOf(scheduled'[r][Len(scheduled'[r])])
              /\ status_code'[r] \in {400, 500}]_vars

\* A request was refused (400) on its second file after its first was
\* persisted, and the cleanup of that path is scheduled.
C11_Witness ==
    \E r \in Requests :
        /\ rpc[r] = "failed"
        /\ status_code[r] = 400
        /\ idx[r] = 2
        /\ saved_files[r] = <<PathJoin(TempDir, resume_files[r][1].filename)>>
        /\ scheduled[r] = <<saved_files[r]>>
=============================================================================
